---- MODULE Spec2Model ----
(***************************************************************************)
(* Market quote aggregation service: fetchFromFinnhub, fetchFromYahoo,     *)
(* fetchMultipleStocks, fetchStockQuote and fetchCrypto, together with the *)
(* module-level slot lastSuccessfulResults.                                *)
(*                                                                         *)
(* Every async function is cut at its suspension points: one action is the *)
(* code that runs between two awaits.  The awaits inside an adapter (the   *)
(* fetch and the json() parse) touch no shared state and are taken as one  *)
(* provider outcome.                                                       *)
(***************************************************************************)
EXTENDS Integers, Sequences, FiniteSets, TLC

\* Longest request list handed to fetchMultipleStocks.
MaxReq == 2

\* Longest quotes array in a Finnhub response.
MaxQuotes == 2

---------------------------------------------------------------------------
\* JavaScript values that can end up in MarketData.price / change.

Num(n) == [t |-> "number", v |-> n]

Null == [t |-> "null", v |-> 0]

NaN == [t |-> "NaN", v |-> 0]

Infinity(sign) == [t |-> "Infinity", v |-> sign]

\* An optional numeric field of a response: <<>> when absent, <<n>> when present.
Absent == <<>>

Range(s) == {s[i] : i \in 1..Len(s)}

SeqsUpTo(S, n) == UNION {[1..k -> S] : k \in 0..n}

RECURSIVE Filter(_, _)
\* Array.prototype.filter with the membership test `keep`: a set of elements.
Filter(s, keep) ==
    IF s = <<>> THEN <<>>
    ELSE IF Head(s) \in keep THEN <<Head(s)>> \o Filter(Tail(s), keep)
         ELSE Filter(Tail(s), keep)

---------------------------------------------------------------------------
\* Static configuration and the inputs the callers and providers can supply.

YAHOO_ONLY_SYMBOLS ==
    {"^GSPC", "^DJI", "^IXIC", "^VIX", "GC=F", "CL=F", "NG=F", "SI=F", "HG=F"}

\* QuoteRequest values the callers pass in.
Requests ==
    { [symbol |-> "AAPL",  name |-> "Apple",   display |-> "AAPL"],
      [symbol |-> "^GSPC", name |-> "S&P 500", display |-> "SPX"],
      [symbol |-> "GC=F",  name |-> "Gold",    display |-> "GOLD"] }

RequestLists == SeqsUpTo(Requests, MaxReq)

\* FinnhubQuote values the primary provider can answer with.  error = "" is
\* an absent (falsy) error field.
RawQuotes ==
    { [symbol |-> "AAPL", price |-> 5, change |-> 1, changePercent |-> 2, error |-> ""],
      [symbol |-> "AAPL", price |-> 0, change |-> 0, changePercent |-> 0, error |-> ""],
      [symbol |-> "AAPL", price |-> -1, change |-> 0, changePercent |-> 0, error |-> ""],
      [symbol |-> "MSFT", price |-> 7, change |-> 1, changePercent |-> 4, error |-> "limit"] }

\* Outcomes of the primary provider call.
\*   throw      fetchWithProxy rejects
\*   notOk      response.ok is false
\*   error      the body carries a top-level error
\*   badBody    response.json() rejects, or the body has no quotes array
\*   ok         the body carries `quotes`
FinnhubFailures == {"throw", "notOk", "error", "badBody"}

FinnhubOutcomes ==
    {[kind |-> k, quotes |-> <<>>] : k \in FinnhubFailures}
    \cup {[kind |-> "ok", quotes |-> qs] : qs \in SeqsUpTo(RawQuotes, MaxQuotes)}

\* meta blocks of the secondary provider's first chart result.
YahooMetas ==
    { [regularMarketPrice |-> 2, chartPreviousClose |-> <<1>>, previousClose |-> <<4>>] }

\* Outcomes of one secondary provider call.
\*   throw, notOk as above
\*   badBody    response.json() rejects, or the body has no chart.result array
\*   noMeta     chart.result is empty, or chart.result[0] has no meta
\*   ok         chart.result[0].meta is `meta`
YahooFailures == {"throw", "notOk", "badBody", "noMeta"}

NoMeta == [regularMarketPrice |-> 0, chartPreviousClose |-> Absent, previousClose |-> Absent]

YahooOutcomes ==
    {[kind |-> k, meta |-> NoMeta] : k \in YahooFailures}
    \cup {[kind |-> "ok", meta |-> m] : m \in YahooMetas}

---------------------------------------------------------------------------
\* Results of a function body: a normal return or a thrown exception.

Return(v) == [exc |-> FALSE, val |-> v]

Throw == [exc |-> TRUE, val |-> <<>>]

---------------------------------------------------------------------------
\* fetchFromFinnhub

\* symbolMap.get(sym): the last request carrying the symbol, as <<info>>, or <<>>.
SymbolMapGet(symbols, sym) ==
    LET hits == {i \in 1..Len(symbols) : symbols[i].symbol = sym}
    IN  IF hits = {} THEN <<>>
        ELSE <<symbols[CHOOSE i \in hits : \A j \in hits : j <= i]>>

\* Faulty variant of FinnhubKeep: the price test is forgotten.
FinnhubKeepErrorOnly(q) == q.error = ""

\* .filter(q => !q.error && q.price > 0)
FinnhubKeep(q) == q.error = "" /\ q.price > 0

\* .map(q => ({symbol, name: info?.name || q.symbol, display: ..., price, change}))
\* from and rawError are history fields: which provider the quote came from and
\* the error field of the provider's quote.
FinnhubMap(symbols, q) ==
    LET info == SymbolMapGet(symbols, q.symbol)
    IN  [symbol   |-> q.symbol,
         name     |-> IF info # <<>> /\ info[1].name # "" THEN info[1].name ELSE q.symbol,
         display  |-> IF info # <<>> /\ info[1].display # "" THEN info[1].display ELSE q.symbol,
         price    |-> Num(q.price),
         change   |-> Num(q.changePercent),
         from     |-> "finnhub",
         rawError |-> q.error]

FinnhubQuotes(symbols, quotes) ==
    LET kept == Filter(quotes, {q \in Range(quotes) : FinnhubKeep(q)})
    IN  [i \in 1..Len(kept) |-> FinnhubMap(symbols, kept[i])]

\* History only: the quotes of the body that the filter of line 74 rejects.
Dropped(o) == {q \in Range(o.quotes) : ~FinnhubKeep(q)}

\* The try block, lines 57-84.
FinnhubTry(symbols, o) ==
    CASE o.kind = "throw"   -> Throw
      [] o.kind = "notOk"   -> Return(<<>>)
      [] o.kind = "error"   -> Return(<<>>)
      [] o.kind = "badBody" -> Throw
      [] OTHER              -> Return(FinnhubQuotes(symbols, o.quotes))

\* Faulty variant of fetchFromFinnhub: no catch block.
fetchFromFinnhubUncaught(symbols, o) == FinnhubTry(symbols, o)

\* try { ... } catch { return [] }
fetchFromFinnhub(symbols, o) ==
    LET r == FinnhubTry(symbols, o)
    IN  IF r.exc THEN Return(<<>>) ELSE r

---------------------------------------------------------------------------
\* fetchFromYahoo

\* a || b on optional numbers: a when present and non-zero, else b.
OrElse(a, b) == IF a # Absent /\ a[1] # 0 THEN a[1] ELSE b

\* meta.chartPreviousClose || meta.previousClose || price
PrevClose(meta) ==
    OrElse(meta.chartPreviousClose,
           OrElse(meta.previousClose, meta.regularMarketPrice))

\* ((price - prevClose) / prevClose) * 100 in IEEE arithmetic.  The inputs of
\* YahooMetas keep the quotient exact.
ChangePercent(price, prevClose) ==
    IF prevClose = 0
    THEN IF price - prevClose = 0 THEN NaN
         ELSE IF price - prevClose > 0 THEN Infinity(1) ELSE Infinity(-1)
    ELSE LET Abs(x) == IF x < 0 THEN 0 - x ELSE x
             q == (Abs(price - prevClose) * 100) \div Abs(prevClose)
         IN  IF (price - prevClose >= 0) = (prevClose > 0) THEN Num(q) ELSE Num(0 - q)

\* The try block, lines 97-110.  The value is <<>> for null, <<quote>> otherwise.
YahooTry(req, o) ==
    CASE o.kind \in {"throw", "badBody"} -> Throw
      [] o.kind \in {"notOk", "noMeta"}  -> Return(<<>>)
      [] OTHER ->
           Return(<<[symbol   |-> req.symbol,
                     name     |-> req.name,
                     display  |-> req.display,
                     price    |-> Num(o.meta.regularMarketPrice),
                     change   |-> ChangePercent(o.meta.regularMarketPrice, PrevClose(o.meta)),
                     from     |-> "yahoo",
                     rawError |-> ""]>>)

\* Faulty variant of fetchFromYahoo: no catch block.
fetchFromYahooUncaught(req, o) == YahooTry(req, o)

\* try { ... } catch { return null }
fetchFromYahoo(req, o) ==
    LET r == YahooTry(req, o)
    IN  IF r.exc THEN Return(<<>>) ELSE r

---------------------------------------------------------------------------
\* fetchCrypto

\* The static id -> {name, symbol} table of the configuration, in entry order.
CRYPTO_IDS == <<"bitcoin", "ethereum">>

CRYPTO_MAP ==
    [id \in Range(CRYPTO_IDS) |->
        IF id = "bitcoin" THEN [name |-> "Bitcoin", symbol |-> "BTC"]
        ELSE [name |-> "Ethereum", symbol |-> "ETH"]]

\* Per-coin entries of a CoinGecko body; a field may be missing.
CoinEntries ==
    { [usd |-> <<7>>, usd_24h_change |-> <<3>>],
      [usd |-> <<9>>, usd_24h_change |-> Absent] }

\* Bodies of a CoinGecko response: any subset of the ids, each with an entry.
CoinBodies ==
    UNION {[ids -> CoinEntries] : ids \in SUBSET Range(CRYPTO_IDS)}

\* Outcomes of the crypto provider call.
\*   throw, notOk as above;  badBody: response.json() rejects or yields null
CryptoFailures == {"throw", "notOk", "badBody"}

CryptoOutcomes ==
    {[kind |-> k, data |-> <<>>] : k \in CryptoFailures}
    \cup {[kind |-> "ok", data |-> d] : d \in CoinBodies}

\* x ?? 0 on an optional number.
OrZero(x) == IF x = Absent THEN 0 ELSE x[1]

\* Object.entries(CRYPTO_MAP).map(([id, info]) => ({...}))
CryptoEntry(data, id) ==
    [name   |-> CRYPTO_MAP[id].name,
     symbol |-> CRYPTO_MAP[id].symbol,
     price  |-> IF id \in DOMAIN data THEN OrZero(data[id].usd) ELSE 0,
     change |-> IF id \in DOMAIN data THEN OrZero(data[id].usd_24h_change) ELSE 0]

\* Faulty variant of CryptoTry: the entries follow the keys of the response.
CryptoTryByResponse(o) ==
    IF o.kind \in {"throw", "notOk", "badBody"} THEN Throw
    ELSE LET present == Filter(CRYPTO_IDS, DOMAIN o.data)
         IN  Return([i \in 1..Len(present) |-> CryptoEntry(o.data, present[i])])

\* Faulty variant of CryptoTry: response.ok is not looked at.
CryptoTryIgnoresStatus(o) ==
    IF o.kind \in {"throw", "badBody"} THEN Throw
    ELSE Return([i \in 1..Len(CRYPTO_IDS) |-> CryptoEntry(o.data, CRYPTO_IDS[i])])

\* The try block, lines 168-180.
CryptoTry(o) ==
    CASE o.kind \in {"throw", "notOk", "badBody"} -> Throw
      [] OTHER ->
           Return([i \in 1..Len(CRYPTO_IDS) |-> CryptoEntry(o.data, CRYPTO_IDS[i])])

\* try { ... } catch { return [] }
CryptoResult(o) ==
    LET r == CryptoTry(o)
    IN  IF r.exc THEN Return(<<>>) ELSE r

---------------------------------------------------------------------------
\* fetchMultipleStocks: the pieces between its awaits

\* Faulty variant of finnhubSymbols: the filter is forgotten.
finnhubSymbolsUnfiltered(symbols) == symbols

\* symbols.filter(s => !YAHOO_ONLY_SYMBOLS.has(s.symbol))
finnhubSymbols(symbols) ==
    Filter(symbols, {s \in Range(symbols) : s.symbol \notin YAHOO_ONLY_SYMBOLS})

\* symbols.filter(s => YAHOO_ONLY_SYMBOLS.has(s.symbol))
yahooSymbols(symbols) ==
    Filter(symbols, {s \in Range(symbols) : s.symbol \in YAHOO_ONLY_SYMBOLS})

\* Faulty variant of Push: the accumulator is replaced by the new quotes.
PushReplace(results, more) == more

\* Faulty variant of Push: the new quotes are put in front (unshift).
PushFront(results, more) == more \o results

\* results.push(...more)
Push(results, more) == results \o more

RECURSIVE NonNullReversed(_)
\* Faulty variant of NonNull: the values are taken last input first.
NonNullReversed(yahooResults) ==
    IF yahooResults = <<>> THEN <<>>
    ELSE NonNullReversed(Tail(yahooResults)) \o Head(yahooResults)

RECURSIVE NonNull(_)
\* yahooResults.filter(r => r !== null): Promise.all keeps the input order.
NonNull(yahooResults) ==
    IF yahooResults = <<>> THEN <<>>
    ELSE Head(yahooResults) \o NonNull(Tail(yahooResults))

\* Faulty variant of CacheAfter: the slot is overwritten by every aggregation.
CacheAfterAlways(results, cache) == results

\* Faulty variant of CacheAfter: the slot keeps the first list written to it.
CacheAfterKeepFirst(results, cache) ==
    IF Len(results) > 0 /\ cache = <<>> THEN results ELSE cache

\* if (results.length > 0) lastSuccessfulResults = results
CacheAfter(results, cache) == IF Len(results) > 0 THEN results ELSE cache

\* Faulty variant of ReturnValue: no fallback to the slot.
ReturnFresh(results, cache) == results

\* return results.length > 0 ? results : lastSuccessfulResults
ReturnValue(results, cache) == IF Len(results) > 0 THEN results ELSE cache

\* Faulty variant of Placeholder: zero, as the crypto pipeline defaults, instead of null.
PlaceholderZero(req) ==
    [symbol   |-> req.symbol,
     name     |-> req.name,
     display  |-> req.display,
     price    |-> Num(0),
     change   |-> Num(0),
     from     |-> "placeholder",
     rawError |-> ""]

\* result || { symbol, name, display, price: null, change: null }
Placeholder(req) ==
    [symbol   |-> req.symbol,
     name     |-> req.name,
     display  |-> req.display,
     price    |-> Null,
     change   |-> Null,
     from     |-> "placeholder",
     rawError |-> ""]

OrPlaceholder(found, req) == IF found = <<>> THEN Placeholder(req) ELSE found[1]

\* symbols.map(s => s.symbol): the symbols of one primary request.
FinnhubRequest(symbols) == [i \in 1..Len(symbols) |-> symbols[i].symbol]

\* encodeURIComponent(symbol): the symbol of one secondary request.
YahooRequest(req) == req.symbol

\* Faulty variant of RouteToYahoo: fetchStockQuote always asks the primary provider.
RouteToYahooNever(symbol) == FALSE

\* if (YAHOO_ONLY_SYMBOLS.has(symbol)) in fetchStockQuote
RouteToYahoo(symbol) == symbol \in YAHOO_ONLY_SYMBOLS

---------------------------------------------------------------------------
\* State

Callers == {"a", "b"}

VARIABLES
    lastSuccessfulResults,  \* the module-level slot
    calls,                  \* per caller: the call it is running or has finished
    lastNonEmpty            \* history: accumulator of the latest aggregate call
                            \* that finished with a non-empty accumulator

vars == <<lastSuccessfulResults, calls, lastNonEmpty>>

\* fn           the function called ("none" before the first call)
\* pc           where the call is suspended, or "done"
\* symbols      the request list (a singleton for fetchStockQuote)
\* finnhubSymbols, yahooSymbols   the two locals of lines 123-124
\* onBatch      whether options.onBatch was supplied
\* results      the accumulator `results`
\* yahooResults the settled values of the Promise.all inputs, <<>> for null
\* settled      history: input positions of the secondary calls, in settle order
\* batches      history: the lists handed to onBatch, in call order
\* outcome      history: kind of the (primary) provider outcome of this call
\* dropped      history: the provider quotes the primary adapter filtered out
\* nPrimary     history: number of quotes the primary adapter returned
\* data         history: the body of the crypto provider's response
\* overlaps     history: another aggregate call was suspended when this one began
\* meta         history: the meta block fetchStockQuote's secondary call received
\* sentFinnhub  history: the symbol lists of the primary requests this call made
\* sentYahoo    history: the symbols of the secondary requests this call made
\* ret          the value the caller received once pc = "done"
NewCall(f, p, symbols, onBatch) ==
    [fn |-> f, pc |-> p, symbols |-> symbols, onBatch |-> onBatch,
     finnhubSymbols |-> <<>>, yahooSymbols |-> <<>>,
     results |-> <<>>, yahooResults |-> <<>>, settled |-> <<>>, batches |-> <<>>,
     outcome |-> "none", dropped |-> {}, nPrimary |-> 0, data |-> <<>>,
     overlaps |-> FALSE, meta |-> NoMeta, sentFinnhub |-> <<>>, sentYahoo |-> <<>>,
     ret |-> Return(<<>>)]

Init ==
    /\ lastSuccessfulResults = <<>>
    /\ calls = [c \in Callers |-> NewCall("none", "idle", <<>>, FALSE)]
    /\ lastNonEmpty = <<>>

\* Faulty variant of OnBatch: the observer is told only about a non-empty accumulator.
OnBatchNonEmpty(k) ==
    IF k.onBatch /\ k.results # <<>>
    THEN [k EXCEPT !.batches = Append(@, k.results)] ELSE k

\* options.onBatch?.(results)
OnBatch(k) ==
    IF k.onBatch THEN [k EXCEPT !.batches = Append(@, k.results)] ELSE k

\* Faulty variant of Finish: the observer is handed the list about to be returned.
FinishNotifying(k, cache) ==
    LET out == ReturnValue(k.results, CacheAfter(k.results, cache))
    IN  [call  |-> [k EXCEPT !.pc = "done",
                             !.batches = IF k.onBatch THEN Append(@, out) ELSE @,
                             !.ret = Return(out)],
         cache |-> CacheAfter(k.results, cache)]

\* Lines 144-148: the cache write and the return.
Finish(k, cache) ==
    [call  |-> [k EXCEPT !.pc = "done",
                         !.ret = Return(ReturnValue(k.results, CacheAfter(k.results, cache)))],
     cache |-> CacheAfter(k.results, cache)]

\* An exception leaving the async function: the promise rejects.
Reject(k, cache) ==
    [call |-> [k EXCEPT !.pc = "done", !.ret = Throw], cache |-> cache]

\* Lines 136-148 up to the await of Promise.all: every fetchFromYahoo call is
\* started; with no secondary-only symbol the function runs to its return.
SecondaryStep(k, cache) ==
    LET n == Len(k.yahooSymbols)
    IN  IF n > 0
        THEN [call  |-> [k EXCEPT !.pc = "yahoo",
                                  !.yahooResults = [i \in 1..n |-> <<>>],
                                  !.sentYahoo =
                                      [i \in 1..n |-> YahooRequest(k.yahooSymbols[i])]],
              cache |-> cache]
        ELSE Finish(k, cache)

\* The step of caller c that leaves its call as r.call and the slot as r.cache.
Step(c, r) ==
    /\ calls' = [calls EXCEPT ![c] = r.call]
    /\ lastSuccessfulResults' = r.cache
    /\ lastNonEmpty' =
          IF /\ r.call.fn = "fetchMultipleStocks"
             /\ r.call.pc = "done"
             /\ ~r.call.ret.exc
             /\ r.call.results # <<>>
          THEN r.call.results
          ELSE lastNonEmpty

\* A caller awaits each call it makes before it makes the next one.
CanCall(c) == calls[c].pc = "idle"

---------------------------------------------------------------------------
\* Actions

\* fetchMultipleStocks(symbols, {onBatch}) up to its first await.
CallFetchMultipleStocks(c, symbols, onBatch) ==
    /\ CanCall(c)
    /\ LET k == [NewCall("fetchMultipleStocks", "finnhub", symbols, onBatch)
                   EXCEPT !.finnhubSymbols = finnhubSymbols(symbols),
                          !.yahooSymbols = yahooSymbols(symbols),
                          !.overlaps = \E d \in Callers \ {c} :
                                          calls[d].pc \in {"finnhub", "yahoo"}]
       IN  IF Len(k.finnhubSymbols) > 0
           THEN Step(c, [call  |-> [k EXCEPT !.sentFinnhub =
                                                <<FinnhubRequest(k.finnhubSymbols)>>],
                         cache |-> lastSuccessfulResults])
           ELSE Step(c, SecondaryStep(k, lastSuccessfulResults))

\* The primary call settles with outcome o: lines 130-133 and on to the next await.
FinnhubSettles(c, o) ==
    /\ calls[c].pc = "finnhub"
    /\ LET k == calls[c]
           r == fetchFromFinnhub(k.finnhubSymbols, o)
           k1 == [k EXCEPT !.outcome = o.kind, !.dropped = Dropped(o)]
       IN  IF r.exc
           THEN Step(c, Reject(k1, lastSuccessfulResults))
           ELSE Step(c, SecondaryStep(
                          OnBatch([k1 EXCEPT !.results = Push(k.results, r.val),
                                             !.nPrimary = Len(r.val)]),
                          lastSuccessfulResults))

\* The secondary call for input position i settles with outcome o.
YahooSettles(c, i, o) ==
    /\ calls[c].pc = "yahoo"
    /\ i \in 1..Len(calls[c].yahooResults)
    /\ i \notin Range(calls[c].settled)
    /\ LET k == calls[c]
           r == fetchFromYahoo(k.yahooSymbols[i], o)
       IN  IF r.exc
           THEN Step(c, Reject(k, lastSuccessfulResults))
           ELSE Step(c, [call  |-> [k EXCEPT !.yahooResults[i] = r.val,
                                             !.settled = Append(@, i)],
                         cache |-> lastSuccessfulResults])

\* Faulty variant of AllSettled: the join counts the calls that gave a quote.
AllSucceeded(k) ==
    \A i \in 1..Len(k.yahooResults) : k.yahooResults[i] # <<>>

\* await Promise.all(...) resumes once every fetchFromYahoo promise has
\* fulfilled (none rejects: fetchFromYahoo catches).
AllSettled(k) == Len(k.settled) = Len(k.yahooResults)

\* Promise.all has resolved: lines 140-148.
YahooJoin(c) ==
    /\ calls[c].pc = "yahoo"
    /\ AllSettled(calls[c])
    /\ LET k == calls[c]
       IN  Step(c, Finish(OnBatch([k EXCEPT !.results =
                                       Push(k.results, NonNull(k.yahooResults))]),
                          lastSuccessfulResults))

\* fetchStockQuote(symbol, name, display) up to its await.
CallFetchStockQuote(c, req) ==
    /\ CanCall(c)
    /\ Step(c, [call  |-> IF RouteToYahoo(req.symbol)
                          THEN [NewCall("fetchStockQuote", "quoteYahoo", <<req>>, FALSE)
                                  EXCEPT !.sentYahoo = <<YahooRequest(req)>>]
                          ELSE [NewCall("fetchStockQuote", "quoteFinnhub", <<req>>, FALSE)
                                  EXCEPT !.sentFinnhub = <<FinnhubRequest(<<req>>)>>],
                cache |-> lastSuccessfulResults])

\* Lines 158-159 after the await.
StockQuoteYahooSettles(c, o) ==
    /\ calls[c].pc = "quoteYahoo"
    /\ LET k == calls[c]
           req == k.symbols[1]
           r == fetchFromYahoo(req, o)
           k1 == [k EXCEPT !.outcome = o.kind, !.meta = o.meta,
                           !.yahooResults = <<r.val>>]
       IN  IF r.exc
           THEN Step(c, Reject(k1, lastSuccessfulResults))
           ELSE Step(c, [call  |-> [k1 EXCEPT !.pc = "done",
                                              !.ret = Return(OrPlaceholder(r.val, req))],
                         cache |-> lastSuccessfulResults])

\* Faulty variant of StockQuoteFinnhubSettles: the quote found is also written
\* to the slot, as the aggregate call does.
StockQuoteFinnhubSeeds(c, o) ==
    /\ calls[c].pc = "quoteFinnhub"
    /\ LET k == calls[c]
           req == k.symbols[1]
           r == fetchFromFinnhub(<<req>>, o)
       IN  Step(c, [call  |-> [k EXCEPT !.pc = "done",
                                        !.outcome = o.kind,
                                        !.dropped = Dropped(o),
                                        !.results = r.val,
                                        !.nPrimary = Len(r.val),
                                        !.ret = Return(OrPlaceholder(
                                            SubSeq(r.val, 1, IF Len(r.val) > 0 THEN 1 ELSE 0),
                                            req))],
                    cache |-> CacheAfter(r.val, lastSuccessfulResults)])

\* Lines 162-163 after the await.
StockQuoteFinnhubSettles(c, o) ==
    /\ calls[c].pc = "quoteFinnhub"
    /\ LET k == calls[c]
           req == k.symbols[1]
           r == fetchFromFinnhub(<<req>>, o)
           k1 == [k EXCEPT !.outcome = o.kind, !.dropped = Dropped(o)]
       IN  IF r.exc
           THEN Step(c, Reject(k1, lastSuccessfulResults))
           ELSE Step(c, [call  |-> [k1 EXCEPT !.pc = "done",
                                              !.results = r.val,
                                              !.nPrimary = Len(r.val),
                                              !.ret = Return(OrPlaceholder(
                                                  SubSeq(r.val, 1, IF Len(r.val) > 0 THEN 1 ELSE 0),
                                                  req))],
                         cache |-> lastSuccessfulResults])

\* fetchCrypto() up to its await.
CallFetchCrypto(c) ==
    /\ CanCall(c)
    /\ Step(c, [call  |-> NewCall("fetchCrypto", "crypto", <<>>, FALSE),
                cache |-> lastSuccessfulResults])

\* Lines 169-184 after the await.
CryptoSettles(c, o) ==
    /\ calls[c].pc = "crypto"
    /\ Step(c, [call  |-> [calls[c] EXCEPT !.pc = "done",
                                           !.outcome = o.kind,
                                           !.data = o.data,
                                           !.ret = CryptoResult(o)],
                cache |-> lastSuccessfulResults])

\* The caller's await resumes with the value (or the exception) of the call.
CallerResumes(c) ==
    /\ calls[c].pc = "done"
    /\ Step(c, [call  |-> NewCall("none", "idle", <<>>, FALSE),
                cache |-> lastSuccessfulResults])

\* One caller issuing calls one after the other.
Sequential == {"a"}

Next ==
    \E c \in Sequential :
        \/ \E symbols \in RequestLists, onBatch \in BOOLEAN :
               CallFetchMultipleStocks(c, symbols, onBatch)
        \/ \E o \in FinnhubOutcomes : FinnhubSettles(c, o)
        \/ \E i \in 1..MaxReq, o \in YahooOutcomes : YahooSettles(c, i, o)
        \/ YahooJoin(c)
        \/ \E req \in Requests : CallFetchStockQuote(c, req)
        \/ \E o \in YahooOutcomes : StockQuoteYahooSettles(c, o)
        \/ \E o \in FinnhubOutcomes : StockQuoteFinnhubSettles(c, o)
        \/ CallFetchCrypto(c)
        \/ \E o \in CryptoOutcomes : CryptoSettles(c, o)
        \/ CallerResumes(c)

Spec == Init /\ [][Next]_vars

---------------------------------------------------------------------------
\* The router alone: fetchMultipleStocks up to its first await, on request
\* lists that repeat a symbol under different metadata.

\* Longest request list of RouterSpec.
MaxRoute == 3

RouterRequests ==
    Requests \cup
    { [symbol |-> "AAPL", name |-> "Apple Inc.", display |-> "Apple"],
      [symbol |-> "MSFT", name |-> "Microsoft",  display |-> "MSFT"] }

RouterNext ==
    \E symbols \in SeqsUpTo(RouterRequests, MaxRoute), onBatch \in BOOLEAN :
        CallFetchMultipleStocks("a", symbols, onBatch)

RouterSpec == Init /\ [][RouterNext]_vars

---------------------------------------------------------------------------
\* Claims

\* C1: the slot always holds the accumulator of the latest aggregate call that
\* ended with a non-empty accumulator (so it is never emptied again), and an
\* aggregate call that ends with an empty accumulator returns exactly that list.
C1_StaleFallback ==
    /\ lastSuccessfulResults = lastNonEmpty
    /\ \A c \in Callers :
          (/\ calls[c].fn = "fetchMultipleStocks"
           /\ calls[c].pc = "done"
           /\ calls[c].results = <<>>)
          => calls[c].ret = [exc |-> FALSE, val |-> lastNonEmpty]

\* A call that asked for other symbols than the cached ones, fetched nothing
\* and got the cached list back.
C1_Witness ==
    \E c \in Callers :
        /\ calls[c].fn = "fetchMultipleStocks"
        /\ calls[c].pc = "done"
        /\ calls[c].results = <<>>
        /\ calls[c].symbols # <<>>
        /\ calls[c].ret.val # <<>>
        /\ \A i \in 1..Len(calls[c].ret.val) :
              calls[c].ret.val[i].symbol \notin {r.symbol : r \in Range(calls[c].symbols)}

\* C2: an aggregate call returns the empty list exactly when its accumulator
\* is empty and no earlier aggregate call ended with a non-empty accumulator;
\* a non-empty accumulator is returned as it is.
C2_EmptyOnlyWithoutHistory ==
    \A c \in Callers :
        (calls[c].fn = "fetchMultipleStocks" /\ calls[c].pc = "done")
        => /\ ~calls[c].ret.exc
           /\ (calls[c].ret.val = <<>>) <=>
                 (calls[c].results = <<>> /\ lastNonEmpty = <<>>)
           /\ calls[c].results # <<>> => calls[c].ret.val = calls[c].results

\* A call that asked for symbols and returned the empty list.
C2_Witness ==
    \E c \in Callers :
        /\ calls[c].fn = "fetchMultipleStocks"
        /\ calls[c].pc = "done"
        /\ calls[c].symbols # <<>>
        /\ calls[c].outcome \in FinnhubFailures
        /\ calls[c].ret.val = <<>>

\* C3: after a failed primary call the aggregate call still runs the secondary
\* step for every secondary-only request and returns normally; the primary
\* contributes nothing, the accumulator is exactly the non-null secondary
\* results, and the return value is it or, when it is empty, the slot.
C3_PrimaryFailureDegrades ==
    \A c \in Callers :
        (/\ calls[c].fn = "fetchMultipleStocks"
         /\ calls[c].pc = "done"
         /\ calls[c].outcome \in FinnhubFailures)
        => /\ ~calls[c].ret.exc
           /\ calls[c].nPrimary = 0
           /\ Len(calls[c].settled) = Len(calls[c].yahooSymbols)
           /\ \A i \in 1..Len(calls[c].results) :
                 /\ calls[c].results[i].from = "yahoo"
                 /\ \E j \in 1..Len(calls[c].yahooResults) :
                       calls[c].yahooResults[j] = <<calls[c].results[i]>>
           /\ Len(calls[c].results) =
                 Cardinality({j \in 1..Len(calls[c].yahooResults) :
                                 calls[c].yahooResults[j] # <<>>})
           /\ calls[c].ret.val =
                 IF calls[c].results # <<>> THEN calls[c].results
                 ELSE lastSuccessfulResults

\* The primary call threw and the secondary quotes were returned.
C3_Witness ==
    \E c \in Callers :
        /\ calls[c].fn = "fetchMultipleStocks"
        /\ calls[c].pc = "done"
        /\ calls[c].outcome = "throw"
        /\ calls[c].results # <<>>
        /\ calls[c].ret.val = calls[c].results

C5_BatchesGrow ==
    \A c \in Callers :
        \A i, j \in 1..Len(calls[c].batches) :
            i < j =>
                /\ Len(calls[c].batches[i]) <= Len(calls[c].batches[j])
                /\ SubSeq(calls[c].batches[j], 1, Len(calls[c].batches[i]))
                      = calls[c].batches[i]

\* Two invocations, the first with a non-empty list and the second with more.
C5_Witness ==
    \E c \in Callers :
        /\ Len(calls[c].batches) = 2
        /\ calls[c].batches[1] # <<>>
        /\ Len(calls[c].batches[2]) > Len(calls[c].batches[1])

\* C6: with an observer, onBatch has been invoked once per non-empty partition
\* whose step is over, whether or not the step contributed a quote; a finished
\* call has invoked it once per non-empty partition.
C6_OneBatchPerPartition ==
    \A c \in Callers :
        calls[c].fn = "fetchMultipleStocks" =>
            LET nP == IF \E i \in 1..Len(calls[c].symbols) :
                             calls[c].symbols[i].symbol \notin YAHOO_ONLY_SYMBOLS
                      THEN 1 ELSE 0
                nS == IF \E i \in 1..Len(calls[c].symbols) :
                             calls[c].symbols[i].symbol \in YAHOO_ONLY_SYMBOLS
                      THEN 1 ELSE 0
                n  == Len(calls[c].batches)
            IN  /\ ~calls[c].onBatch => n = 0
                /\ (calls[c].onBatch /\ calls[c].pc = "finnhub") => n = 0
                /\ (calls[c].onBatch /\ calls[c].pc = "yahoo") => n = nP
                /\ (calls[c].onBatch /\ calls[c].pc = "done") => n = nP + nS

\* Both partitions were non-empty, neither step contributed a quote, and
\* onBatch was invoked twice with the empty list.
C6_Witness ==
    \E c \in Callers :
        /\ calls[c].fn = "fetchMultipleStocks"
        /\ calls[c].pc = "done"
        /\ calls[c].batches = << <<>>, <<>> >>

\* C7: every request is in exactly one of finnhubSymbols and yahooSymbols,
\* each partition is the input with some positions removed (relative order
\* kept), and the two together hold every request as often as the input does.
C7_RouterPartitions ==
    \A c \in Callers :
        calls[c].fn = "fetchMultipleStocks" =>
            LET s == calls[c].symbols
                P == calls[c].finnhubSymbols
                Y == calls[c].yahooSymbols
                Count(q, r) == Cardinality({i \in 1..Len(q) : q[i] = r})
                Increasing(f) == \A i, j \in DOMAIN f : i < j => f[i] < f[j]
                SubsequenceOf(q) ==
                    \E f \in [1..Len(q) -> 1..Len(s)] :
                        Increasing(f) /\ \A i \in 1..Len(q) : q[i] = s[f[i]]
            IN  /\ \A i \in 1..Len(s) : (s[i] \in Range(P)) # (s[i] \in Range(Y))
                /\ \A i \in 1..Len(P) : P[i].symbol \notin YAHOO_ONLY_SYMBOLS
                /\ \A i \in 1..Len(Y) : Y[i].symbol \in YAHOO_ONLY_SYMBOLS
                /\ SubsequenceOf(P)
                /\ SubsequenceOf(Y)
                /\ Len(P) + Len(Y) = Len(s)
                /\ \A r \in Range(s) : Count(P, r) + Count(Y, r) = Count(s, r)

\* Three requests, one symbol twice under different metadata, both partitions
\* non-empty.
C7_Witness ==
    \E c \in Callers :
        /\ calls[c].fn = "fetchMultipleStocks"
        /\ Len(calls[c].symbols) = 3
        /\ Len(calls[c].finnhubSymbols) = 2
        /\ calls[c].finnhubSymbols[1].symbol = calls[c].finnhubSymbols[2].symbol
        /\ calls[c].finnhubSymbols[1] # calls[c].finnhubSymbols[2]
        /\ calls[c].symbols[1].symbol \in YAHOO_ONLY_SYMBOLS

\* C8: no list handed to onBatch, no value returned by fetchMultipleStocks
\* (fresh or from the slot), no content of the slot and no quote returned by
\* fetchStockQuote holds a primary-provider quote whose price is not a
\* positive number or that carried an error marker.
C8_NoInvalidPrimaryQuote ==
    LET Valid(q) ==
            q.from = "finnhub" =>
                (q.price.t = "number" /\ q.price.v > 0 /\ q.rawError = "")
    IN  /\ \A q \in Range(lastSuccessfulResults) : Valid(q)
        /\ \A c \in Callers :
              /\ \A i \in 1..Len(calls[c].batches) :
                    \A q \in Range(calls[c].batches[i]) : Valid(q)
              /\ (calls[c].fn = "fetchMultipleStocks" /\ calls[c].pc = "done")
                    => \A q \in Range(calls[c].ret.val) : Valid(q)
              /\ (calls[c].fn = "fetchStockQuote" /\ calls[c].pc = "done"
                     /\ ~calls[c].ret.exc)
                    => Valid(calls[c].ret.val)

\* The primary answered with a quote of price <= 0 next to a valid one; the
\* observer and the caller got the valid one.
C8_Witness ==
    \E c \in Callers :
        /\ calls[c].fn = "fetchMultipleStocks"
        /\ calls[c].pc = "done"
        /\ \E d \in calls[c].dropped : d.price <= 0 /\ d.error = ""
        /\ calls[c].nPrimary > 0
        /\ Len(calls[c].batches) > 0
        /\ calls[c].ret.val = calls[c].results

\* C9: fetchStockQuote returns normally with one quote: the first quote of the
\* adapter it chose, or, when that adapter returned nothing (in particular
\* after every failure outcome), the request's symbol, name and display with
\* price null and change null.
C9_StockQuoteOrPlaceholder ==
    \A c \in Callers :
        (calls[c].fn = "fetchStockQuote" /\ calls[c].pc = "done") =>
            LET req == calls[c].symbols[1]
                found == IF req.symbol \in YAHOO_ONLY_SYMBOLS
                         THEN calls[c].yahooResults[1] ELSE calls[c].results
            IN  /\ ~calls[c].ret.exc
                /\ calls[c].outcome \in (FinnhubFailures \cup YahooFailures)
                      => found = <<>>
                /\ found = <<>> =>
                      /\ calls[c].ret.val.symbol = req.symbol
                      /\ calls[c].ret.val.name = req.name
                      /\ calls[c].ret.val.display = req.display
                      /\ calls[c].ret.val.price = [t |-> "null", v |-> 0]
                      /\ calls[c].ret.val.change = [t |-> "null", v |-> 0]
                /\ found # <<>> => calls[c].ret.val = found[1]

\* The primary answered, its only quotes were filtered out, and the caller
\* got the placeholder.
C9_Witness ==
    \E c \in Callers :
        /\ calls[c].fn = "fetchStockQuote"
        /\ calls[c].pc = "done"
        /\ calls[c].outcome = "ok"
        /\ calls[c].dropped # {}
        /\ calls[c].ret.val.price = [t |-> "null", v |-> 0]
        /\ calls[c].ret.val.symbol = "AAPL"

\* C10: a fresh aggregate result is the primary adapter's quotes followed by
\* the secondary quotes; for the requests [AAPL, ^GSPC] with one valid primary
\* quote and a secondary quote it is [AAPL quote, ^GSPC quote].
C10_PrimaryBeforeSecondary ==
    \A c \in Callers :
        (/\ calls[c].fn = "fetchMultipleStocks"
         /\ calls[c].pc = "done"
         /\ calls[c].results # <<>>)
        => LET out == calls[c].ret.val
           IN  /\ ~calls[c].ret.exc
               /\ out = calls[c].results
               /\ \A i \in 1..Len(out) :
                     out[i].from = IF i <= calls[c].nPrimary THEN "finnhub" ELSE "yahoo"
               /\ (/\ Len(calls[c].symbols) = 2
                   /\ calls[c].symbols[1].symbol = "AAPL"
                   /\ calls[c].symbols[2].symbol = "^GSPC"
                   /\ calls[c].nPrimary = 1
                   /\ calls[c].yahooResults[1] # <<>>)
                  => /\ Len(out) = 2
                     /\ out[1].symbol = "AAPL" /\ out[1].from = "finnhub"
                     /\ out[2].symbol = "^GSPC" /\ out[2].from = "yahoo"

\* The scenario: [AAPL, ^GSPC] requested, both providers answered validly.
C10_Witness ==
    \E c \in Callers :
        /\ calls[c].fn = "fetchMultipleStocks"
        /\ calls[c].pc = "done"
        /\ Len(calls[c].symbols) = 2
        /\ calls[c].symbols[1].symbol = "AAPL"
        /\ calls[c].symbols[2].symbol = "^GSPC"
        /\ Len(calls[c].ret.val) = 2
        /\ calls[c].ret.val[1].from = "finnhub"
        /\ calls[c].ret.val[2].from = "yahoo"


\* C11 as amended: the secondary quotes of an aggregate result stand in the
\* order of the secondary-only requests, whatever the order in which the
\* concurrent calls settled: the quote of input position i sits right after
\* the primary quotes and the quotes of the earlier positions.
C11_InputOrder ==
    \A c \in Callers :
        (/\ calls[c].fn = "fetchMultipleStocks"
         /\ calls[c].pc = "done"
         /\ ~calls[c].ret.exc)
        => LET y == calls[c].yahooResults
               Got(i) == Cardinality({j \in 1..i : y[j] # <<>>})
           IN  /\ Len(calls[c].results) = calls[c].nPrimary + Got(Len(y))
               /\ \A i \in 1..Len(y) :
                     y[i] # <<>> =>
                        calls[c].results[calls[c].nPrimary + Got(i)] = y[i][1]

\* [A, B] requested, B settled before A, both with a quote, and A's quote
\* stands before B's in the returned list.
C11_Witness ==
    \E c \in Callers :
        /\ calls[c].fn = "fetchMultipleStocks"
        /\ calls[c].pc = "done"
        /\ calls[c].settled = <<2, 1>>
        /\ calls[c].yahooSymbols[1].symbol # calls[c].yahooSymbols[2].symbol
        /\ Len(calls[c].ret.val) = 2
        /\ calls[c].ret.val[1].symbol = calls[c].yahooSymbols[1].symbol
        /\ calls[c].ret.val[2].symbol = calls[c].yahooSymbols[2].symbol

\* C11 as stated: the secondary quotes stand in the order in which the calls
\* settled, so a call that settled earlier has its quote earlier in the result.
C11_CompletionOrder ==
    \A c \in Callers :
        (/\ calls[c].fn = "fetchMultipleStocks"
         /\ calls[c].pc = "done"
         /\ ~calls[c].ret.exc)
        => LET y == calls[c].yahooResults
               s == calls[c].settled
               Got(k) == Cardinality({j \in 1..k : y[s[j]] # <<>>})
           IN  \A k \in 1..Len(s) :
                   y[s[k]] # <<>> =>
                      calls[c].results[calls[c].nPrimary + Got(k)] = y[s[k]][1]


\* C12: while secondary calls are in flight the second onBatch has not
\* happened and nothing was returned; a finished aggregate call has let every
\* secondary call settle, and each call that gave a quote has that quote in
\* the accumulator and each call that gave none (it failed) has none: the
\* accumulator holds as many secondary quotes as calls that gave one.
C12_SiblingIsolation ==
    \A c \in Callers :
        calls[c].fn = "fetchMultipleStocks" =>
            LET y == calls[c].yahooResults
                secondary == SubSeq(calls[c].results, calls[c].nPrimary + 1,
                                    Len(calls[c].results))
            IN  /\ calls[c].pc = "yahoo" =>
                      /\ Len(calls[c].results) = calls[c].nPrimary
                      /\ Len(calls[c].batches) <= 1
                /\ calls[c].pc = "done" =>
                      /\ ~calls[c].ret.exc
                      /\ Len(calls[c].settled) = Len(calls[c].yahooSymbols)
                      /\ Range(calls[c].settled) = 1..Len(calls[c].yahooSymbols)
                      /\ \A i \in 1..Len(y) :
                            y[i] # <<>> => y[i][1] \in Range(secondary)
                      /\ Len(secondary) =
                            Cardinality({i \in 1..Len(y) : y[i] # <<>>})
                      /\ \A q \in Range(secondary) :
                            \E i \in 1..Len(y) : y[i] = <<q>>

\* Two secondary calls, the one that settled first gave no result, the other
\* gave a quote, and the call returned exactly that quote.
C12_Witness ==
    \E c \in Callers :
        /\ calls[c].fn = "fetchMultipleStocks"
        /\ calls[c].pc = "done"
        /\ Len(calls[c].settled) = 2
        /\ calls[c].yahooResults[calls[c].settled[1]] = <<>>
        /\ calls[c].yahooResults[calls[c].settled[2]] # <<>>
        /\ calls[c].ret.val = calls[c].yahooResults[calls[c].settled[2]]


\* C13: whenever the crypto provider answers with a body, whichever ids the
\* body holds, fetchCrypto returns one entry per id of the static table, in
\* table order, with the table's name and symbol; an id missing from the body
\* has price 0 and change 0, and a missing field of a present id is 0.
C13_CryptoCoversTable ==
    \A c \in Callers :
        (/\ calls[c].fn = "fetchCrypto"
         /\ calls[c].pc = "done"
         /\ calls[c].outcome = "ok")
        => LET out == calls[c].ret.val
               body == calls[c].data
           IN  /\ ~calls[c].ret.exc
               /\ Len(out) = Len(CRYPTO_IDS)
               /\ \A i \in 1..Len(CRYPTO_IDS) :
                     LET id == CRYPTO_IDS[i]
                     IN  /\ out[i].name = CRYPTO_MAP[id].name
                         /\ out[i].symbol = CRYPTO_MAP[id].symbol
                         /\ id \notin DOMAIN body =>
                               (out[i].price = 0 /\ out[i].change = 0)
                         /\ id \in DOMAIN body =>
                               /\ out[i].price =
                                     IF body[id].usd = <<>> THEN 0 ELSE body[id].usd[1]
                               /\ out[i].change =
                                     IF body[id].usd_24h_change = <<>> THEN 0
                                     ELSE body[id].usd_24h_change[1]

\* The body held the second id only; the first entry is the first id of the
\* table with price 0 and change 0.
C13_Witness ==
    \E c \in Callers :
        /\ calls[c].fn = "fetchCrypto"
        /\ calls[c].pc = "done"
        /\ calls[c].outcome = "ok"
        /\ DOMAIN calls[c].data = {CRYPTO_IDS[2]}
        /\ Len(calls[c].ret.val) = Len(CRYPTO_IDS)
        /\ calls[c].ret.val[1].symbol = CRYPTO_MAP[CRYPTO_IDS[1]].symbol
        /\ calls[c].ret.val[1].price = 0
        /\ calls[c].ret.val[1].change = 0

\* C14: after a failed crypto call (throw, non-success status, unparsable
\* body) fetchCrypto returns normally with the empty list; a returned list is
\* never partial.
C14_CryptoFailureIsEmpty ==
    \A c \in Callers :
        (calls[c].fn = "fetchCrypto" /\ calls[c].pc = "done")
        => /\ calls[c].outcome \in CryptoFailures
                 => calls[c].ret = [exc |-> FALSE, val |-> <<>>]
           /\ Len(calls[c].ret.val) \in {0, Len(CRYPTO_IDS)}

\* A crypto call that failed with a non-success status while the equity slot
\* held quotes, and that returned the empty list.
C14_Witness ==
    \E c \in Callers :
        /\ calls[c].fn = "fetchCrypto"
        /\ calls[c].pc = "done"
        /\ calls[c].outcome = "notOk"
        /\ lastSuccessfulResults # <<>>
        /\ calls[c].ret.val = <<>>


---------------------------------------------------------------------------
\* Two callers whose aggregate calls interleave at their awaits.

\* Longest request list of ConcSpec.
MaxConcReq == 1

ConcRequests == {r \in Requests : r.symbol \in {"AAPL", "^GSPC"}}

ConcFinnhubOutcomes ==
    {o \in FinnhubOutcomes :
        /\ o.kind \in {"notOk", "ok"}
        /\ Len(o.quotes) <= 1
        /\ \A q \in Range(o.quotes) : q.price = 5}

ConcYahooOutcomes == {o \in YahooOutcomes : o.kind \in {"notOk", "ok"}}

ConcNext ==
    \E c \in Callers :
        \/ \E symbols \in SeqsUpTo(ConcRequests, MaxConcReq) :
               CallFetchMultipleStocks(c, symbols, FALSE)
        \/ \E o \in ConcFinnhubOutcomes : FinnhubSettles(c, o)
        \/ \E i \in 1..MaxConcReq, o \in ConcYahooOutcomes : YahooSettles(c, i, o)
        \/ YahooJoin(c)
        \/ CallerResumes(c)

ConcSpec == Init /\ [][ConcNext]_vars

\* The aggregate calls that return in this step.
Returning ==
    {c \in Callers : /\ calls[c].fn = "fetchMultipleStocks"
                     /\ calls[c].pc \in {"finnhub", "yahoo"}
                     /\ calls'[c].pc = "done"}

\* C15: with overlapping aggregate calls, a call that returns with a non-empty
\* accumulator leaves the slot equal to its own accumulator and returns its
\* own accumulator; a call that returns with an empty accumulator leaves the
\* slot as it was; no other step changes the slot.  So the slot always holds
\* the accumulator of the last call that wrote it.
C15_LastWriterWins ==
    [][/\ \A c \in Returning :
             IF calls'[c].results # <<>>
             THEN /\ lastSuccessfulResults' = calls'[c].results
                  /\ calls'[c].ret = Return(calls'[c].results)
             ELSE lastSuccessfulResults' = lastSuccessfulResults
       /\ Returning = {} => lastSuccessfulResults' = lastSuccessfulResults
       /\ lastSuccessfulResults' = lastNonEmpty']_vars

\* Two calls that overlapped and ended with different non-empty accumulators:
\* the slot holds the accumulator of "a", and "b" got its own.
C15_Witness ==
    /\ \A c \in Callers : calls[c].fn = "fetchMultipleStocks" /\ calls[c].pc = "done"
    /\ calls["a"].overlaps
    /\ calls["a"].results # <<>>
    /\ calls["b"].results # <<>>
    /\ calls["a"].results # calls["b"].results
    /\ lastSuccessfulResults = calls["a"].results
    /\ calls["b"].ret = Return(calls["b"].results)


\* The symbols of the entries of a request list that are, or are not, in the
\* secondary-only set, in request order.
SymbolsOf(symbols, secondary) ==
    LET part == Filter(symbols, {r \in Range(symbols) :
                                    (r.symbol \in YAHOO_ONLY_SYMBOLS) = secondary})
    IN  [i \in 1..Len(part) |-> part[i].symbol]

\* C16: no primary request carries a secondary-only symbol and no secondary
\* request carries any other symbol.  An aggregate call makes no primary
\* request when no entry is primary-eligible and otherwise one, carrying all
\* the eligible symbols; once past the primary step it has made one secondary
\* request per secondary-only entry.  fetchStockQuote makes one request, to
\* the provider its symbol belongs to.
C16_RoutingSafety ==
    \A c \in Callers :
        LET k == calls[c]
        IN  /\ \A i \in 1..Len(k.sentFinnhub) :
                  \A j \in 1..Len(k.sentFinnhub[i]) :
                      k.sentFinnhub[i][j] \notin YAHOO_ONLY_SYMBOLS
            /\ \A i \in 1..Len(k.sentYahoo) : k.sentYahoo[i] \in YAHOO_ONLY_SYMBOLS
            /\ k.fn = "fetchMultipleStocks" =>
                  /\ Len(k.sentFinnhub) <= 1
                  /\ k.sentFinnhub =
                        IF SymbolsOf(k.symbols, FALSE) = <<>> THEN <<>>
                        ELSE <<SymbolsOf(k.symbols, FALSE)>>
                  /\ k.pc = "finnhub" => k.sentYahoo = <<>>
                  /\ k.pc \in {"yahoo", "done"} =>
                        k.sentYahoo = SymbolsOf(k.symbols, TRUE)
            /\ k.fn = "fetchStockQuote" =>
                  LET symbol == k.symbols[1].symbol
                  IN  IF symbol \in YAHOO_ONLY_SYMBOLS
                      THEN k.sentFinnhub = <<>> /\ k.sentYahoo = <<symbol>>
                      ELSE k.sentFinnhub = << <<symbol>> >> /\ k.sentYahoo = <<>>
            /\ k.fn = "fetchCrypto" => k.sentFinnhub = <<>> /\ k.sentYahoo = <<>>

\* A finished aggregate call over a mixed list: one primary request and one
\* secondary request per secondary-only entry.
C16_Witness ==
    \E c \in Callers :
        /\ calls[c].fn = "fetchMultipleStocks"
        /\ calls[c].pc = "done"
        /\ Len(calls[c].symbols) = 2
        /\ calls[c].sentFinnhub = << <<"AAPL">> >>
        /\ Len(calls[c].sentYahoo) = 1


---------------------------------------------------------------------------
\* The secondary adapter alone, through fetchStockQuote, on meta blocks with
\* every combination of price and close fields, zero included.

YahooPrices == {0, 1, 2, 4}

YahooCloses == {Absent, <<0>>, <<1>>, <<2>>, <<4>>}

WideYahooMetas ==
    [regularMarketPrice : YahooPrices,
     chartPreviousClose : YahooCloses,
     previousClose      : YahooCloses]

WideYahooOutcomes ==
    {[kind |-> k, meta |-> NoMeta] : k \in YahooFailures}
    \cup {[kind |-> "ok", meta |-> m] : m \in WideYahooMetas}

YahooNext ==
    \E c \in Sequential :
        \/ \E req \in {r \in Requests : r.symbol \in YAHOO_ONLY_SYMBOLS} :
               CallFetchStockQuote(c, req)
        \/ \E o \in WideYahooOutcomes : StockQuoteYahooSettles(c, o)
        \/ CallerResumes(c)

YahooSpec == Init /\ [][YahooNext]_vars

\* C17: the change of a secondary quote is computed against the override
\* close if the meta block has one, else against the regular close if it has
\* one, else against the price; and when the block has neither close the
\* change is exactly 0, whatever the price.
C17_PrevCloseFallback ==
    \A c \in Callers :
        (/\ calls[c].fn = "fetchStockQuote"
         /\ calls[c].pc = "done"
         /\ calls[c].sentYahoo # <<>>
         /\ calls[c].outcome = "ok")
        => LET m == calls[c].meta
               price == m.regularMarketPrice
               chosen == IF m.chartPreviousClose # Absent THEN m.chartPreviousClose[1]
                         ELSE IF m.previousClose # Absent THEN m.previousClose[1]
                         ELSE price
           IN  /\ calls[c].ret.val.change = ChangePercent(price, chosen)
               /\ (m.chartPreviousClose = Absent /\ m.previousClose = Absent)
                     => calls[c].ret.val.change = Num(0)


---------------------------------------------------------------------------
\* One caller of fetchMultipleStocks, with every provider call it starts
\* eventually settling and every continuation eventually run.

FairNext ==
    \/ \E symbols \in RequestLists, onBatch \in BOOLEAN :
           CallFetchMultipleStocks("a", symbols, onBatch)
    \/ \E o \in ConcFinnhubOutcomes : FinnhubSettles("a", o)
    \/ \E i \in 1..MaxReq, o \in ConcYahooOutcomes : YahooSettles("a", i, o)
    \/ YahooJoin("a")
    \/ CallerResumes("a")

FairSpec ==
    /\ Init
    /\ [][FairNext]_vars
    /\ WF_vars(\E o \in ConcFinnhubOutcomes : FinnhubSettles("a", o))
    /\ WF_vars(\E i \in 1..MaxReq, o \in ConcYahooOutcomes : YahooSettles("a", i, o))
    /\ WF_vars(YahooJoin("a"))

\* C18: a started aggregate call eventually returns a list.  While it waits
\* for the primary call, no secondary request has been made, nothing has
\* settled and onBatch has not been invoked; while it waits for the secondary
\* calls, the primary step (if the partition was non-empty) is over with its
\* one onBatch; the slot changes only in the step that returns; and the call
\* moves from the primary wait to the secondary wait to its return, never back.
C18_RunsToCompletion ==
    /\ (calls["a"].pc \in {"finnhub", "yahoo"})
          ~> (calls["a"].pc = "done" /\ ~calls["a"].ret.exc)
    /\ [](LET k == calls["a"]
          IN  /\ k.pc = "finnhub" =>
                    /\ k.sentFinnhub # <<>>
                    /\ k.sentYahoo = <<>>
                    /\ k.settled = <<>>
                    /\ k.batches = <<>>
                    /\ k.outcome = "none"
              /\ k.pc = "yahoo" =>
                    /\ k.sentFinnhub # <<>> => k.outcome # "none"
                    /\ Len(k.batches) =
                          IF k.onBatch /\ k.sentFinnhub # <<>> THEN 1 ELSE 0
                    /\ Len(k.sentYahoo) = Len(k.yahooSymbols)
              /\ (k.fn = "fetchMultipleStocks" /\ k.pc = "done") =>
                    /\ k.sentFinnhub # <<>> => k.outcome # "none"
                    /\ Len(k.settled) = Len(k.sentYahoo)
                    /\ k.onBatch /\ k.sentYahoo # <<>> =>
                          k.batches[Len(k.batches)] = k.results)
    /\ [][/\ calls["a"].pc = "finnhub" => calls'["a"].pc \in {"finnhub", "yahoo", "done"}
          /\ calls["a"].pc = "yahoo" => calls'["a"].pc \in {"yahoo", "done"}
          /\ lastSuccessfulResults' # lastSuccessfulResults =>
                /\ calls["a"].pc \in {"finnhub", "yahoo"}
                /\ calls'["a"].pc = "done"]_vars

\* A call with both partitions and an observer that went through every step:
\* the primary call failed, the secondary call gave a quote, and it returned.
C18_Witness ==
    /\ calls["a"].fn = "fetchMultipleStocks"
    /\ calls["a"].pc = "done"
    /\ calls["a"].onBatch
    /\ calls["a"].outcome = "notOk"
    /\ Len(calls["a"].sentYahoo) = 1
    /\ calls["a"].settled = <<1>>
    /\ calls["a"].batches = << <<>>, calls["a"].results >>
    /\ Len(calls["a"].results) = 1
    /\ calls["a"].ret = Return(calls["a"].results)


\* C19: a step of a fetchStockQuote or fetchCrypto call (its start, the
\* settling of its provider call, the caller resuming) leaves the slot as it
\* was, so the slot always holds the accumulator of the latest aggregate call
\* that ended non-empty, whatever calls came in between; and a fetchStockQuote
\* call whose provider gave nothing returns the placeholder whatever the slot
\* holds.
C19_OnlyAggregateTouchesCache ==
    /\ [][\A c \in Callers :
             (/\ calls'[c] # calls[c]
              /\ \/ calls[c].fn \in {"fetchStockQuote", "fetchCrypto"}
                 \/ calls'[c].fn \in {"fetchStockQuote", "fetchCrypto"})
             => /\ lastSuccessfulResults' = lastSuccessfulResults
                /\ lastNonEmpty' = lastNonEmpty]_vars
    /\ [](/\ lastSuccessfulResults = lastNonEmpty
          /\ \A c \in Callers :
                (/\ calls[c].fn = "fetchStockQuote"
                 /\ calls[c].pc = "done"
                 /\ calls[c].results = <<>>
                 /\ calls[c].yahooResults \in {<<>>, << <<>> >>})
                => calls[c].ret.val.from = "placeholder")

\* A fetchStockQuote call that got its quote from the primary provider while
\* the slot was, and stayed, empty.
C19_Witness ==
    \E c \in Callers :
        /\ calls[c].fn = "fetchStockQuote"
        /\ calls[c].pc = "done"
        /\ calls[c].ret.val.from = "finnhub"
        /\ calls[c].ret.val.price = Num(5)
        /\ lastSuccessfulResults = <<>>


\* C20: for a finished aggregate call with an observer: if its accumulator is
\* non-empty, onBatch was invoked and the return value is the list of the last
\* invocation; if its accumulator is empty, every invocation received the
\* empty list, so when the call returns a non-empty stale list no invocation
\* received the list returned.
C20_NoStaleBatch ==
    \A c \in Callers :
        (/\ calls[c].fn = "fetchMultipleStocks"
         /\ calls[c].pc = "done"
         /\ calls[c].onBatch)
        => LET k == calls[c]
               n == Len(k.batches)
           IN  /\ k.results # <<>> =>
                     /\ n >= 1
                     /\ k.ret = Return(k.batches[n])
               /\ k.results = <<>> =>
                     /\ \A i \in 1..n : k.batches[i] = <<>>
                     /\ k.ret = Return(lastSuccessfulResults)
                     /\ k.ret.val # <<>> => \A i \in 1..n : k.batches[i] # k.ret.val

\* A call with an observer that returned a non-empty stale list after handing
\* the observer the empty list twice.
C20_Witness ==
    \E c \in Callers :
        /\ calls[c].fn = "fetchMultipleStocks"
        /\ calls[c].pc = "done"
        /\ calls[c].onBatch
        /\ calls[c].results = <<>>
        /\ Len(calls[c].batches) = 2
        /\ calls[c].batches[2] = <<>>
        /\ calls[c].ret.val # <<>>
        /\ calls[c].ret.val = lastSuccessfulResults

====
